---------------------------- MODULE Spec2Model ----------------------------
(***************************************************************************)
(* Dock Dodger (src/main.rs): the registry of application bundles whose    *)
(* Dock icon has been suppressed, the Info.plist mutation that suppresses  *)
(* or restores it, and the event loop that routes drops and restore        *)
(* requests to them.                                                       *)
(*                                                                         *)
(* A path is a sequence of one-character strings.  The paths used are      *)
(* absolute and normalised (no trailing separator, no "." component), as   *)
(* the windowing layer delivers them, so PathBuf equality (main.rs:469,    *)
(* 513) coincides with equality of the character sequences.  Every path    *)
(* names its own Contents/Info.plist: two paths never reach the same file. *)
(* Files are changed by this program only.                                 *)
(***************************************************************************)
EXTENDS Integers, Sequences, FiniteSets, TLC

\* ------------------------------------------------------------------ bounds
\* Longest event queue explored.
MaxQueue == 2
\* Most paths delivered by one webview drop.
MaxDrop == 2

\* ------------------------------------------------------------------- paths
FooApp == <<"/", "F", ".", "a", "p", "p">>
\* Its name holds a double quote, which a JSON string must escape.
BarAPP == <<"/", "B", "\"", ".", "A", "P", "P">>
\* A directory that is laid out like a bundle but is not named like one.
NotesTxt == <<"/", "n", ".", "t", "x", "t">>
\* A file whose name is ".app": it has no extension.
DotApp == <<"/", ".", "a", "p", "p">>

\* A third bundle, so that a release can leave two entries behind.
BazApp == <<"/", "Z", ".", "a", "p", "p">>
Paths == {FooApp, BarAPP, BazApp, NotesTxt, DotApp}
\* The paths the windowing layer itself reports as dropped on the window.
WindowDropPaths == {FooApp, NotesTxt}

\* u8::to_ascii_lowercase on the characters the paths use.
to_ascii_lowercase(c) ==
    CASE c = "A" -> "a"
      [] c = "P" -> "p"
      [] c = "F" -> "f"
      [] c = "B" -> "b"
      [] OTHER -> c

\* str::eq_ignore_ascii_case.
eq_ignore_ascii_case(s, t) ==
    /\ Len(s) = Len(t)
    /\ \A i \in 1..Len(s) : to_ascii_lowercase(s[i]) = to_ascii_lowercase(t[i])

\* Index of the last occurrence of character c in s, 0 when there is none.
LastIndexOf(s, c) ==
    LET hits == {i \in 1..Len(s) : s[i] = c}
    IN  IF hits = {} THEN 0 ELSE CHOOSE i \in hits : \A j \in hits : j <= i

\* Path::file_name: the last component.
file_name(path) == SubSeq(path, LastIndexOf(path, "/") + 1, Len(path))

\* Path::extension as an option: {} is None, {e} is Some(e).  The part of the
\* file name after its last dot; None when there is no dot, or when the only
\* dot is the first character of the name.
extension(path) ==
    LET name == file_name(path)
        dot == LastIndexOf(name, ".")
    IN  IF dot <= 1 THEN {} ELSE {SubSeq(name, dot + 1, Len(name))}

\* A check that asks only whether the path has an extension.
is_app_bundle_any_extension(path) == extension(path) # {}

is_app_bundle(path) ==
    \E ext \in extension(path) : eq_ignore_ascii_case(ext, <<"a", "p", "p">>)

\* Path::display().to_string() / to_string_lossy(): the paths are ASCII, so
\* the displayed text is the path's own characters.
display(path) == path

\* ------------------------------------------------------------------ scripts
RECURSIVE json_escape(_)
\* The characters of s as serde_json writes them inside a string: a double
\* quote and a backslash are preceded by a backslash.
json_escape(s) ==
    IF s = <<>> THEN <<>>
    ELSE (IF Head(s) \in {"\"", "\\"} THEN <<"\\", Head(s)>> ELSE <<Head(s)>>)
             \o json_escape(Tail(s))

\* serde_json::to_string(path).unwrap(): the quoted, escaped string.
serde_json_to_string(s) == <<"\"">> \o json_escape(s) \o <<"\"">>

\* A statement that passes the path between quotes as it is.
js_add_app_unescaped(path) ==
    [call |-> "addApp", arg |-> <<"\"">> \o path \o <<"\"">>]

\* js_add_app: the statement addApp(<JSON string>); as its call and the text
\* of its argument.
js_add_app(path) == [call |-> "addApp", arg |-> serde_json_to_string(path)]

RECURSIVE js_unescape(_)
\* The value of the body of a JavaScript string literal; {} when the body
\* holds an unescaped quote or ends in a lone backslash (a syntax error).
js_unescape(body) ==
    IF body = <<>> THEN {<<>>}
    ELSE IF Head(body) = "\"" THEN {}
    ELSE IF Head(body) = "\\"
         THEN IF Len(body) < 2 THEN {}
              ELSE {<<body[2]>> \o r : r \in js_unescape(Tail(Tail(body)))}
    ELSE {<<Head(body)>> \o r : r \in js_unescape(Tail(body))}

\* The value of a JavaScript string literal given as text, as an option.
js_string_value(text) ==
    IF Len(text) < 2 \/ text[1] # "\"" \/ text[Len(text)] # "\"" THEN {}
    ELSE js_unescape(SubSeq(text, 2, Len(text) - 1))

\* The statement parses.
js_parses(stmt) == stmt.call # "addApp" \/ js_string_value(stmt.arg) # {}

RECURSIVE js_run(_, _)
\* The rows after the page runs the statements: the clear statement empties
\* the list, addApp(path) appends a row for path (its text and the path its
\* restore button posts), toggleEmptyState leaves the rows alone.
js_run(rows, script) ==
    IF script = <<>> THEN rows
    ELSE LET stmt == Head(script)
             next == CASE stmt.call = "clear" -> <<>>
                       [] stmt.call = "addApp" ->
                            Append(rows, CHOOSE v \in js_string_value(stmt.arg) : TRUE)
                       [] OTHER -> rows
         IN  js_run(next, Tail(script))

\* webview.evaluate_script(script), whose result the callers drop: a script
\* with a syntax error runs no statement.
evaluate_script(rows, script) ==
    IF \A i \in 1..Len(script) : js_parses(script[i])
    THEN js_run(rows, script)
    ELSE rows

\* --------------------------------------------------------------- documents
\* The Info.plist of a bundle.  kind is "absent" (no file), "malformed" (does
\* not parse), "array" (parses, top level is not a dictionary) or "dict"; map
\* gives each key's value in a dictionary, NoKey for a key that is not there.
NoKey == "<absent>"
Keys == {"LSUIElement", "CFBundleName"}

NoMap == [k \in Keys |-> NoKey]
Absent == [kind |-> "absent", map |-> NoMap]
Malformed == [kind |-> "malformed", map |-> NoMap]
ArrayDoc == [kind |-> "array", map |-> NoMap]
DictDoc(ls) == [kind |-> "dict",
                map |-> [k \in Keys |-> IF k = "LSUIElement" THEN ls ELSE "Foo"]]

\* The documents a bundle may hold when the program starts (a malformed one
\* and a dictionary with the key at "0" arise later).
InitDocs == {Absent, ArrayDoc, DictDoc(NoKey), DictDoc("1")}

\* Value::from_file: Err for a missing or malformed document.
from_file_ok(d) == d.kind \in {"array", "dict"}

\* A write-back that keeps the inserted key only.
insert_drops_others(d, k, v) ==
    [d EXCEPT !.map = [x \in Keys |-> IF x = k THEN v ELSE NoKey]]

\* Dictionary::insert: sets the key, overwriting any value it had.
insert(d, k, v) == [d EXCEPT !.map[k] = v]

\* plist::to_file_xml(plist_path, &plist) rewrites the document in place (the
\* callers write to the document's own path, not to a temporary file that is
\* renamed over it).  "ok": written; "failUntouched": the file could not be
\* opened for writing and is as it was; "failDamaged": the write failed after
\* the file was opened, leaving a truncated document.
WriteOutcomes == {"ok", "failUntouched", "failDamaged"}

to_file_xml(old, new, w) ==
    CASE w = "ok" -> [ok |-> TRUE, doc |-> new]
      [] w = "failUntouched" -> [ok |-> FALSE, doc |-> old]
      [] OTHER -> [ok |-> FALSE, doc |-> Malformed]

\* A hide that reports a document that is not a dictionary as an error.
hide_dock_icon_strict(d, w) ==
    IF ~from_file_ok(d) THEN [ok |-> FALSE, doc |-> d]
    ELSE IF d.kind = "dict" THEN to_file_xml(d, insert(d, "LSUIElement", "1"), w)
    ELSE [ok |-> FALSE, doc |-> d]

hide_dock_icon(d, w) ==
    IF ~from_file_ok(d) THEN [ok |-> FALSE, doc |-> d]
    ELSE IF d.kind = "dict" THEN to_file_xml(d, insert(d, "LSUIElement", "1"), w)
    ELSE [ok |-> TRUE, doc |-> d]

restore_dock_icon(d, w) ==
    IF ~from_file_ok(d) THEN [ok |-> FALSE, doc |-> d]
    ELSE IF d.kind = "dict" THEN to_file_xml(d, insert(d, "LSUIElement", "0"), w)
    ELSE [ok |-> TRUE, doc |-> d]

\* ------------------------------------------------------------------ events
DroppedFile(p) == [type |-> "DroppedFile", path |-> p]
Add(p) == [type |-> "Add", path |-> p]
Restore(p) == [type |-> "Restore", path |-> p]
CloseRequested == [type |-> "CloseRequested", path |-> <<>>]
NoEvent == [type |-> "None", path |-> <<>>]

\* JSON.stringify of a string, as the page writes the path into a body.
JSON_stringify(s) == <<"\"">> \o json_escape(s) \o <<"\"">>

\* The body a click on the restore button of a row posts (createRestoreButton):
\* the cmd and the text of the path member.
create_restore_body(row) == [cmd |-> "restore", path |-> JSON_stringify(row)]

\* The same, for every row the list may show.
RestoreBodies == [p \in Paths |-> create_restore_body(p)]
RestoreBody(row) == RestoreBodies[row]

\* Other bodies: a message with another cmd, and a body cut short inside the
\* path string, which does not deserialize as IpcRequest.
OtherBodies ==
    {[cmd |-> "add", path |-> JSON_stringify(FooApp)],
     [cmd |-> "restore", path |-> <<"\"", "/", "F">>]}

\* The bodies the page posts while it shows rows.
IpcBodies(rows) == {RestoreBody(rows[i]) : i \in 1..Len(rows)} \cup OtherBodies

\* serde_json::from_str::<IpcRequest>(body), as an option: the request with
\* its path member decoded.
from_str_IpcRequest(body) ==
    {[cmd |-> body.cmd, path |-> v] : v \in js_string_value(body.path)}

\* The path lists one webview drop may carry.
DropLists == UNION {[1..n -> Paths] : n \in 1..MaxDrop}

VARIABLES
    apps,      \* the registry: Vec<ManagedApp>, as the sequence of its paths
    shown,     \* the rows of the displayed list, in order
    doc,       \* doc[p]: the Info.plist of the bundle at path p
    queue,     \* the events sent to the event loop and not yet handled
    running,   \* FALSE once control_flow is ControlFlow::Exit
    last,      \* what handling the most recent event did
    again,     \* TRUE when the event handled before it was the same request
               \* (same operation, same path) and took the "ok" branch
    hides      \* hides[p]: hide_dock_icon calls on p that returned Ok since
               \* the last restore_dock_icon call on p that returned Ok

vars == <<apps, shown, doc, queue, running, last, again, hides>>

\* branch: "notBundle", "duplicate", "ok" (the mutator returned Ok), "err" (it
\* returned Err), "exit"; op: the mutator called, "none" when there was no
\* call; apps0, shown0, doc0: the state the event was handled in.
Handled(ev, branch, op) ==
    [ev |-> ev, branch |-> branch, op |-> op,
     apps0 |-> apps, shown0 |-> shown, doc0 |-> doc]

Nothing == [ev |-> NoEvent, branch |-> "none", op |-> "none",
            apps0 |-> <<>>, shown0 |-> <<>>, doc0 |-> [p \in Paths |-> Absent]]

IsAdmit(h) == h.ev.type \in {"DroppedFile", "Add"}
IsRelease(h) == h.ev.type = "Restore"

\* The value of again once ev is handled after the event recorded in h.
Repeats(h, ev) ==
    /\ h.ev.path = ev.path
    /\ \/ IsAdmit(h) /\ ev.type \in {"DroppedFile", "Add"}
       \/ IsRelease(h) /\ ev.type = "Restore"
    /\ h.branch = "ok"

Init ==
    /\ apps = <<>>
    /\ shown = <<>>
    /\ doc \in {d \in [Paths -> InitDocs] :
                  /\ d[BarAPP] = DictDoc(NoKey)
                  /\ d[BazApp] = ArrayDoc
                  /\ d[NotesTxt] = DictDoc(NoKey)
                  /\ d[DotApp] = Absent}
    /\ queue = <<>>
    /\ running = TRUE
    /\ last = Nothing
    /\ again = FALSE
    /\ hides = [p \in Paths |-> 0]


\* ---------------------------------------------------------- event sources
\* The windowing layer reports a file dropped on the window.
WindowDroppedFile ==
    /\ running
    /\ Len(queue) < MaxQueue
    /\ \E p \in WindowDropPaths : queue' = Append(queue, DroppedFile(p))
    /\ UNCHANGED <<apps, shown, doc, running, last, again, hides>>

\* The windowing layer reports the close button.
WindowCloseRequested ==
    /\ running
    /\ Len(queue) < MaxQueue
    /\ queue' = Append(queue, CloseRequested)
    /\ UNCHANGED <<apps, shown, doc, running, last, again, hides>>

\* A handler that sends an Add for every dropped path.
drag_drop_sends_unfiltered(paths) == [i \in 1..Len(paths) |-> Add(paths[i])]

RECURSIVE drag_drop_sends(_)
\* The Add events the drag-drop handler sends for a dropped path list: one for
\* each path that is an app bundle, in the order of the list.
drag_drop_sends(paths) ==
    IF paths = <<>> THEN <<>>
    ELSE (IF is_app_bundle(Head(paths)) THEN <<Add(Head(paths))>> ELSE <<>>)
             \o drag_drop_sends(Tail(paths))

\* What the handler sends, over every path list a drop may carry.
DropSends == {drag_drop_sends(paths) : paths \in DropLists}

\* with_drag_drop_handler on DragDropEvent::Drop.
DragDropHandler ==
    /\ running
    /\ \E sends \in DropSends :
          /\ Len(queue) + Len(sends) <= MaxQueue
          /\ queue' = queue \o sends
    /\ UNCHANGED <<apps, shown, doc, running, last, again, hides>>

\* A handler that sends Restore for every request that deserializes.
ipc_sends_any_cmd(body) ==
    LET req == from_str_IpcRequest(body)
    IN  IF req # {} THEN <<Restore((CHOOSE d \in req : TRUE).path)>> ELSE <<>>

\* The Restore events the IPC handler sends for a posted body.
ipc_sends(body) ==
    LET req == from_str_IpcRequest(body)
    IN  IF req # {} /\ (CHOOSE d \in req : TRUE).cmd = "restore"
        THEN <<Restore((CHOOSE d \in req : TRUE).path)>>
        ELSE <<>>

\* What the handler sends, for every body the page may post.
IpcSends ==
    [body \in {RestoreBody(p) : p \in Paths} \cup OtherBodies |-> ipc_sends(body)]

\* with_ipc_handler, called with body.
IpcPost(body) ==
    /\ running
    /\ Len(queue) + Len(IpcSends[body]) <= MaxQueue
    /\ queue' = queue \o IpcSends[body]
    /\ UNCHANGED <<apps, shown, doc, running, last, again, hides>>

\* with_ipc_handler, over the bodies the page posts.
IpcHandler == \E body \in IpcBodies(shown) : IpcPost(body)

\* -------------------------------------------------------------- event loop
\* The closure passed to event_loop.run handles whatever event it is handed:
\* it keeps no record of a close and starts every call by setting the control
\* flow to Wait.  ControlFlow::Exit asks the loop to stop; the events that
\* were queued before the loop stops may still be handed to the closure, so
\* the arms below are enabled on a non-empty queue whether or not a close has
\* been handled, and the loop may stop (stutter) at any point after one.
\* apps.iter().any(|app| app.path == path)
any_path_eq_never(a, path) == FALSE

\* A check that looks at the first entry only.
any_path_eq_head_only(a, path) == a # <<>> /\ a[1] = path

any_path_eq(a, path) == \E i \in 1..Len(a) : a[i] = path

\* apps.retain(|a| a.path != path)
retain_keeps_all(a, path) == a

\* A removal that moves the last entry into the place of the removed one.
retain_swap_remove(a, path) ==
    IF \A i \in 1..Len(a) : a[i] # path THEN a
    ELSE LET k == CHOOSE i \in 1..Len(a) : a[i] = path
         IN  [i \in 1..(Len(a) - 1) |-> IF i = k THEN a[Len(a)] ELSE a[i]]

retain(a, path) == SelectSeq(a, LAMBDA x : x # path)

\* The script rebuild_list assembles: the clear statement, one addApp per
\* entry in order, toggleEmptyState.
rebuild_script(a) ==
    <<[call |-> "clear", arg |-> <<>>]>>
        \o [i \in 1..Len(a) |-> js_add_app(display(a[i]))]
        \o <<[call |-> "toggleEmptyState", arg |-> <<>>]>>

\* rebuild_list(&webview, &apps): the rows once the script has been evaluated.
rebuild_list(rows, a) == evaluate_script(rows, rebuild_script(a))

Bump(n) == IF n < 2 THEN n + 1 ELSE n

\* handle_app_drop(path, &mut apps, &webview), for the event at the head of
\* the queue.
handle_app_drop(ev) ==
    LET path == ev.path
    IN  IF ~is_app_bundle(path)
        THEN /\ last' = Handled(ev, "notBundle", "none")
             /\ UNCHANGED <<apps, shown, doc, hides>>
        ELSE IF any_path_eq(apps, path)
        THEN /\ last' = Handled(ev, "duplicate", "none")
             /\ UNCHANGED <<apps, shown, doc, hides>>
        ELSE \E w \in WriteOutcomes :
               LET r == hide_dock_icon(doc[path], w)
               IN  /\ doc' = [doc EXCEPT ![path] = r.doc]
                   /\ IF r.ok
                      THEN /\ apps' = Append(apps, path)
                           /\ shown' = evaluate_script(shown, <<js_add_app(display(path))>>)
                           /\ hides' = [hides EXCEPT ![path] = Bump(@)]
                           /\ last' = Handled(ev, "ok", "hide")
                      ELSE /\ last' = Handled(ev, "err", "hide")
                           /\ UNCHANGED <<apps, shown, hides>>

\* Event::WindowEvent { event: WindowEvent::DroppedFile(path), .. }
HandleDroppedFile ==
    /\ queue # <<>>
    /\ Head(queue).type = "DroppedFile"
    /\ queue' = Tail(queue)
    /\ again' = Repeats(last, Head(queue))
    /\ handle_app_drop(Head(queue))
    /\ UNCHANGED running

\* Event::UserEvent(UserEvent::Add(path))
HandleAdd ==
    /\ queue # <<>>
    /\ Head(queue).type = "Add"
    /\ queue' = Tail(queue)
    /\ again' = Repeats(last, Head(queue))
    /\ handle_app_drop(Head(queue))
    /\ UNCHANGED running

\* Event::UserEvent(UserEvent::Restore(path))
HandleRestore ==
    /\ queue # <<>>
    /\ Head(queue).type = "Restore"
    /\ queue' = Tail(queue)
    /\ again' = Repeats(last, Head(queue))
    /\ LET ev == Head(queue)
           path == ev.path
       IN  \E w \in WriteOutcomes :
             LET r == restore_dock_icon(doc[path], w)
             IN  /\ doc' = [doc EXCEPT ![path] = r.doc]
                 /\ IF r.ok
                    THEN /\ apps' = retain(apps, path)
                         /\ shown' = rebuild_list(shown, apps')
                         /\ hides' = [hides EXCEPT ![path] = 0]
                         /\ last' = Handled(ev, "ok", "restore")
                    ELSE /\ last' = Handled(ev, "err", "restore")
                         /\ UNCHANGED <<apps, shown, hides>>
    /\ UNCHANGED running

\* A close arm that also releases every managed bundle.
HandleCloseRequested_with_cleanup ==
    /\ queue # <<>>
    /\ Head(queue).type = "CloseRequested"
    /\ queue' = Tail(queue)
    /\ again' = FALSE
    /\ last' = Handled(Head(queue), "exit", "none")
    /\ running' = FALSE
    /\ doc' = [p \in Paths |->
                 IF any_path_eq(apps, p) THEN restore_dock_icon(doc[p], "ok").doc
                 ELSE doc[p]]
    /\ apps' = <<>>
    /\ shown' = <<>>
    /\ hides' = [p \in Paths |-> 0]

\* Event::WindowEvent { event: WindowEvent::CloseRequested, .. }
HandleCloseRequested ==
    /\ queue # <<>>
    /\ Head(queue).type = "CloseRequested"
    /\ queue' = Tail(queue)
    /\ again' = FALSE
    /\ last' = Handled(Head(queue), "exit", "none")
    /\ running' = FALSE
    /\ UNCHANGED <<apps, shown, doc, hides>>

Next ==
    \/ WindowDroppedFile
    \/ WindowCloseRequested
    \/ DragDropHandler
    \/ IpcHandler
    \/ HandleDroppedFile
    \/ HandleAdd
    \/ HandleRestore
    \/ HandleCloseRequested

Spec == Init /\ [][Next]_vars

\* ------------------------------------------------------------------ claims
InApps(a, p) == \E i \in 1..Len(a) : a[i] = p
Count(a, p) == Cardinality({i \in 1..Len(a) : a[i] = p})

\* The path ends in ".app", compared without regard to case.
EndsInAppExtension(p) ==
    /\ Len(p) >= 4
    /\ eq_ignore_ascii_case(SubSeq(p, Len(p) - 3, Len(p)), <<".", "a", "p", "p">>)

\* The suppression key of the document at p reads v.
KeyReads(p, v) == doc[p].kind = "dict" /\ doc[p].map["LSUIElement"] = v

\* The suppression key of the document at p read v before the last event.
KeyReads0(p, v) ==
    last.doc0[p].kind = "dict" /\ last.doc0[p].map["LSUIElement"] = v

\* The last event left the registry, the displayed list and every document
\* as they were.
LastChangedNothing ==
    /\ apps = last.apps0
    /\ shown = last.shown0
    /\ doc = last.doc0

\* C1: in every reachable state the registry holds no two entries with the
\* same path.
C1_NoDuplicatePaths ==
    \A i, j \in 1..Len(apps) : i # j => apps[i] # apps[j]

\* A path already in a registry of two entries was offered again.
C1_Witness ==
    /\ IsAdmit(last)
    /\ last.branch = "duplicate"
    /\ Len(apps) = 2

\* C2: a restore request for a path that is not in the registry is rejected
\* without calling the mutator: the document at that path is left untouched
\* and the registry is as it was.
C2_UnmanagedRestoreRejected ==
    (IsRelease(last) /\ ~InApps(last.apps0, last.ev.path))
        => (last.op = "none" /\ doc = last.doc0 /\ apps = last.apps0)

\* C3: when admit(p) has succeeded and the release(p) handled next succeeds,
\* the registry is what it was before the admit and so is the document of p
\* (the value or the absence of its suppression key).
C3_RestoreUndoesHide ==
    [][(/\ HandleRestore
        /\ IsAdmit(last) /\ last.branch = "ok"
        /\ last'.ev.path = last.ev.path
        /\ last'.branch = "ok")
          => (apps' = last.apps0 /\ doc'[last.ev.path] = last.doc0[last.ev.path])]_vars

\* C4: after a successful admit(p) the suppression key of p's document reads
\* "1"; after a successful release of a managed p it reads "0".
C4_DocumentReadsBack ==
    /\ (IsAdmit(last) /\ last.branch = "ok") => KeyReads(last.ev.path, "1")
    /\ (IsRelease(last) /\ last.branch = "ok" /\ InApps(last.apps0, last.ev.path))
          => KeyReads(last.ev.path, "0")

\* C5: a path is in the registry exactly when the most recent mutator call on
\* it that returned Ok was a hide.
C5_ManagedIffLastHide ==
    \A p \in Paths : InApps(apps, p) <=> hides[p] >= 1

\* A restore of an unmanaged path succeeded while another path stays managed.
C5_Witness ==
    /\ IsRelease(last)
    /\ last.branch = "ok"
    /\ ~InApps(last.apps0, last.ev.path)
    /\ Len(apps) >= 1

C7_FailureChangesNothing ==
    last.branch = "err"
        => /\ LastChangedNothing
           /\ (IsRelease(last) /\ InApps(last.apps0, last.ev.path))
                 => InApps(apps, last.ev.path)

\* C8: an offer of a path that does not end in ".app" (in any case) is
\* rejected: no mutator call, registry, list and documents as they were.
C8_NonBundleRejected ==
    (IsAdmit(last) /\ ~EndsInAppExtension(last.ev.path))
        => (last.branch = "notBundle" /\ last.op = "none" /\ LastChangedNothing)

\* A text file was dropped on the window while a bundle was managed.
C8_Witness ==
    /\ last.ev = DroppedFile(NotesTxt)
    /\ last.branch = "notBundle"
    /\ Len(apps) >= 1

\* C9 as stated: whenever admit(p) is handled right after admit(p), for any
\* path p, the first added p and the second is rejected as a duplicate,
\* leaving one entry for p.
C9_AnyPathAddedThenDuplicate ==
    [][(/\ HandleDroppedFile \/ HandleAdd
        /\ IsAdmit(last)
        /\ last'.ev.path = last.ev.path)
          => /\ last.branch = "ok"
             /\ last'.branch = "duplicate"
             /\ Count(apps', last.ev.path) = 1]_vars

\* C9, amended: when admit(p) is handled right after an admit(p) that added
\* p, it is rejected as a duplicate without a mutator call and the registry
\* holds exactly one entry for p.
C9_AddedThenDuplicate ==
    (IsAdmit(last) /\ again)
        => /\ last.branch = "duplicate"
           /\ last.op = "none"
           /\ apps = last.apps0
           /\ Count(apps, last.ev.path) = 1

\* The same bundle was offered twice in a row, the first offer adding it.
C9_Witness ==
    /\ IsAdmit(last)
    /\ again
    /\ last.branch = "duplicate"
    /\ Len(apps) = 2

\* C10: a successful release of a managed path removes it, and a release of
\* the same path handled next is rejected as not managed (no mutator call,
\* registry unchanged).
C10_SecondReleaseRejected ==
    /\ (IsRelease(last) /\ last.branch = "ok") => ~InApps(apps, last.ev.path)
    /\ (IsRelease(last) /\ again)
          => (last.op = "none" /\ apps = last.apps0 /\ doc = last.doc0)

\* C11: once the close request has been handled, no later step (the handling
\* of an event that was queued behind it included) changes the registry, the
\* displayed list or any bundle's Info.plist.
C11_ClosedIsTerminal ==
    [][(~running) => UNCHANGED <<apps, shown, doc>>]_vars

\* C12: handling the close request cleans nothing up: the registry, the
\* displayed list and every Info.plist are what they were before it, no
\* mutator was called, and so every bundle whose key read "1" still reads "1".
C12_CloseLeavesBundlesSuppressed ==
    (last.branch = "exit") =>
        /\ last.op = "none"
        /\ apps = last.apps0
        /\ shown = last.shown0
        /\ doc = last.doc0
        /\ \A p \in Paths : KeyReads0(p, "1") => KeyReads(p, "1")

\* The close was handled while a bundle was managed and its key read "1".
C12_Witness ==
    /\ last.branch = "exit"
    /\ \E p \in Paths : InApps(last.apps0, p) /\ KeyReads0(p, "1") /\ KeyReads(p, "1")

\* C13: a posted message whose cmd is not "restore", or that does not
\* deserialize, sends no event and changes neither the registry, the list nor
\* any Info.plist; the message a row's restore button posts sends exactly one
\* Restore carrying that row's path, and changes nothing else.
C13_OnlyRestoreMessagesSend ==
    [][/\ \A body \in OtherBodies :
             IpcPost(body) => UNCHANGED <<apps, shown, doc, queue>>
       /\ \A i \in 1..Len(shown) :
             IpcPost(RestoreBody(shown[i])) =>
                 /\ UNCHANGED <<apps, shown, doc>>
                 /\ queue' = Append(queue, Restore(shown[i]))]_vars

\* A restore message has been posted for the displayed row of a managed
\* bundle whose path needs escaping, and its Restore event is queued.
C13_Witness ==
    /\ InApps(apps, BarAPP)
    /\ \E i \in 1..Len(queue) : queue[i] = Restore(BarAPP)

C15_NonDictionaryIsSilentOk ==
    (last.op # "none" /\ last.doc0[last.ev.path].kind = "array") =>
        LET p == last.ev.path
        IN  /\ last.branch = "ok"
            /\ doc = last.doc0
            /\ IsAdmit(last) => apps = Append(last.apps0, p)
            /\ IsRelease(last) => ~InApps(apps, p)

\* A managed bundle whose document is an array has been released.
C15_Witness ==
    /\ IsRelease(last)
    /\ last.doc0[last.ev.path].kind = "array"
    /\ InApps(last.apps0, last.ev.path)
    /\ ~InApps(apps, last.ev.path)

\* C16: in every reachable state every path in the registry ends in ".app",
\* compared without regard to case.
C16_RegistryHoldsBundlesOnly ==
    \A i \in 1..Len(apps) : EndsInAppExtension(apps[i])

\* The registry holds a path whose extension is written in upper case, after
\* a path with another extension and a hideable document was offered.
C16_Witness ==
    /\ InApps(apps, BarAPP)
    /\ last.ev.path = NotesTxt
    /\ last.branch = "notBundle"
    /\ doc[NotesTxt].kind = "dict"

\* C17: after every handled event the rows of the displayed list are the
\* registry's paths: as many rows as entries, row i showing entry i.
C17_ListShowsRegistry ==
    /\ Len(shown) = Len(apps)
    /\ \A i \in 1..Len(apps) : shown[i] = display(apps[i])

\* A release redrew a list of two rows, one of them for the path whose name
\* holds a double quote, after three rows had been appended one at a time.
C17_Witness ==
    /\ IsRelease(last)
    /\ last.branch = "ok"
    /\ Len(last.shown0) = 3
    /\ Len(shown) = 2
    /\ InApps(shown, BarAPP)

\* C18: an admit that succeeds leaves the registry as it was with the path
\* appended at the end; a release that succeeds leaves the entries before the
\* released path followed by the entries after it, each in its prior order
\* (the registry as it was when the path was not in it).
C18_OrderPreserved ==
    LET p == last.ev.path
        a == last.apps0
    IN  /\ (IsAdmit(last) /\ last.branch = "ok") => apps = Append(a, p)
        /\ (IsRelease(last) /\ last.branch = "ok") =>
              IF InApps(a, p)
              THEN \E k \in 1..Len(a) :
                      /\ a[k] = p
                      /\ apps = SubSeq(a, 1, k - 1) \o SubSeq(a, k + 1, Len(a))
              ELSE apps = a

\* The first of three entries was released, leaving the other two.
C18_Witness ==
    /\ IsRelease(last)
    /\ last.branch = "ok"
    /\ Len(last.apps0) = 3
    /\ last.apps0[1] = last.ev.path
    /\ Len(apps) = 2

\* One Add per path of the list that passes the bundle check, in list order.
ExpectedAdds(paths) ==
    LET idx == {i \in 1..Len(paths) : is_app_bundle(paths[i])}
        nth(j) == CHOOSE i \in idx : Cardinality({k \in idx : k <= i}) = j
    IN  [j \in 1..Cardinality(idx) |-> Add(paths[nth(j)])]

ExpectedSends == {ExpectedAdds(paths) : paths \in DropLists}

\* For every drop list the handler sends exactly the expected events.
DropsSendExpectedAdds ==
    \A paths \in DropLists : drag_drop_sends(paths) = ExpectedAdds(paths)

\* C19: a step of an event source (drag-drop handler, IPC handler, window)
\* leaves the registry, the list and the documents alone and only appends to
\* the queue: for a drop, one Add per dropped path that passes the bundle
\* check, in drop order; for a restore message, one Restore.  A step of the
\* event loop takes exactly the head of the queue and leaves that event
\* either applied in full (a successful mutator call, the registry and the
\* list all updated) or not applied to the registry and the list at all.
C19_SourcesEnqueueLoopAppliesWhole ==
    [][/\ (Len(queue') > Len(queue)) =>
             /\ UNCHANGED <<apps, shown, doc, last, hides>>
             /\ SubSeq(queue', 1, Len(queue)) = queue
             /\ LET sent == SubSeq(queue', Len(queue) + 1, Len(queue'))
                IN  \/ sent \in ExpectedSends /\ DropsSendExpectedAdds
                    \/ \E i \in 1..Len(shown) : sent = <<Restore(shown[i])>>
                    \/ sent = <<CloseRequested>>
                    \/ \E p \in WindowDropPaths : sent = <<DroppedFile(p)>>
       /\ (Len(queue') < Len(queue)) =>
             /\ queue' = Tail(queue)
             /\ last'.ev = Head(queue)
             /\ LET ev == Head(queue)
                    p == ev.path
                IN  \/ /\ apps' = apps
                       /\ shown' = shown
                       /\ ev.type \in {"DroppedFile", "Add"} => last'.branch # "ok"
                    \/ /\ ev.type \in {"DroppedFile", "Add"}
                       /\ last'.branch = "ok"
                       /\ doc[p].kind = "dict" => doc'[p].map["LSUIElement"] = "1"
                       /\ apps' = Append(apps, p)
                       /\ shown' = Append(shown, display(p))
                    \/ /\ ev.type = "Restore"
                       /\ last'.branch = "ok"
                       /\ doc[p].kind = "dict" => doc'[p].map["LSUIElement"] = "0"
                       /\ ~InApps(apps', p)
                       /\ Len(apps') = Len(apps) - 1
                       /\ shown' = [i \in 1..Len(apps') |-> display(apps'[i])]]_vars

\* Events of both sources wait in the queue, an Add sent by the drag-drop
\* handler ahead of a Restore sent by the IPC handler, with a bundle managed.
C19_Witness ==
    /\ Len(queue) = 2
    /\ queue[1].type = "Add"
    /\ queue[2].type = "Restore"
    /\ queue[1].path # queue[2].path
    /\ Len(apps) >= 1

=============================================================================
